---------------------------- MODULE Spec2Model ----------------------------
(***************************************************************************)
(* Model of the inventory consolidation run of src/inventory_app.py: the   *)
(* batch parser (parse_batch), the normalisation of the two uploaded       *)
(* tables, the assignment loop in full-move and partial-move mode, and the *)
(* write-back of the working capacity table.                               *)
(*                                                                         *)
(* Identifiers (bins, units, materials, storage types) are abstract        *)
(* strings that are already trimmed; batch codes are sequences of          *)
(* one-character strings so that parse_batch is computed, not assumed.     *)
(* Dates are proleptic Gregorian ordinals (datetime.toordinal()).          *)
(***************************************************************************)
EXTENDS Integers, Sequences, FiniteSets, TLC

VARIABLES
    endcaps_in,            \* uploaded Endcaps sheet (sequence of source rows)
    open_space_in,         \* uploaded Open Space sheet (sequence of target rows)
    partial_moves,         \* move_type == "Partial Moves (Allow splitting)"
    endcaps_df,            \* normalised, sorted source rows
    available_bins,        \* working copy that tracks remaining capacity
    sorted_endcap_bins,    \* source bin ids, smallest bins first
    pos,                   \* index of the next bin of sorted_endcap_bins
    used_source_bins,      \* bins that have been fully moved
    assignments,           \* emitted assignment rows
    summary_data,          \* emitted summary rows
    updated_open_space_df, \* output copy of the Open Space sheet
    updated_endcaps_df,    \* output copy of the Endcaps sheet
    pc                     \* "upload" -> "loop" -> "done"

vars == <<endcaps_in, open_space_in, partial_moves, endcaps_df, available_bins,
          sorted_endcap_bins, pos, used_source_bins, assignments, summary_data,
          updated_open_space_df, updated_endcaps_df, pc>>

(***************************************************************************)
(* Bounds of the model.                                                    *)
(***************************************************************************)
MaxSrcRows == 3
MaxTgtRows == 2

(***************************************************************************)
(* Program constants.                                                      *)
(***************************************************************************)
MinBatchLen == 10
DateWindow == 364
FullUtilization == 100

----------------------------------------------------------------------------
(***************************************************************************)
(* Generic helpers.                                                        *)
(***************************************************************************)
Range(s) == {s[i] : i \in DOMAIN s}

Min2(a, b) == IF a <= b THEN a ELSE b

Abs(x) == IF x < 0 THEN -x ELSE x

RECURSIVE SumAvail(_)
SumAvail(s) == IF s = <<>> THEN 0 ELSE Head(s).Avail + SumAvail(Tail(s))

Perms(n) == {f \in [1..n -> 1..n] : \A i, j \in 1..n : i # j => f[i] # f[j]}

\* Every arrangement of s by ascending key (key[i] is the key of s[i]; a
\* negated key gives ascending=False).  sort_values() uses the
\* default kind="quicksort", which is not stable: the order of rows with
\* equal keys is not determined by the code.
SortOrders(s, key) ==
    {[i \in 1..Len(s) |-> s[p[i]]] :
        p \in {q \in Perms(Len(s)) :
                 \A i \in 1..(Len(s) - 1) : key[q[i]] <= key[q[i + 1]]}}

----------------------------------------------------------------------------
(***************************************************************************)
(* parse_batch                                                             *)
(***************************************************************************)
DigitChars == <<"0", "1", "2", "3", "4", "5", "6", "7", "8", "9">>

IsDigit(c) == c \in Range(DigitChars)

DigitVal(c) == (CHOOSE i \in DOMAIN DigitChars : DigitChars[i] = c) - 1

\* int(s) for a two-character slice: ValueError unless both are digits.
IntOk(c1, c2) == IsDigit(c1) /\ IsDigit(c2)

IntOf(c1, c2) == 10 * DigitVal(c1) + DigitVal(c2)

IsLeap(y) == (y % 4 = 0 /\ y % 100 # 0) \/ y % 400 = 0

\* datetime.date(y, 1, 1).toordinal() - 1
DaysBeforeYear(y) ==
    LET y1 == y - 1 IN y1 * 365 + (y1 \div 4) - (y1 \div 100) + (y1 \div 400)

\* datetime.date(y, 1, 1).weekday(), Monday = 0
FirstWeekday(y) == (DaysBeforeYear(y) + 1 + 6) % 7

\* strptime(f"{year}-W{week}-1", "%Y-W%W-%w"): %W takes 0..53, the day is the
\* Monday (weekday 0) of that week, weeks starting on Monday.
StrptimeOk(week) == week <= 53

StrptimeOrdinal(year, week) ==
    LET first_weekday == FirstWeekday(year)
        week_0_length == (7 - first_weekday) % 7
        julian == IF week = 0 THEN 1 - first_weekday
                  ELSE 1 + week_0_length + 7 * (week - 1)
    IN DaysBeforeYear(year) + julian

NaT == [known |-> FALSE, ord |-> 0]

NoPrefix == <<>>

\* Variant: the week read one character too far to the right.
parse_batch_ShiftedWeek(batch) ==
    IF Len(batch) >= MinBatchLen
    THEN LET n == Len(batch)
             batch_prefix == SubSeq(batch, 1, 2)
         IN IF IntOk(batch[n - 1], batch[n]) /\ IntOk(batch[n - 2], batch[n - 1])
               /\ StrptimeOk(IntOf(batch[n - 2], batch[n - 1]))
            THEN [prefix |-> batch_prefix,
                  date |-> [known |-> TRUE,
                            ord |-> StrptimeOrdinal(2000 + IntOf(batch[n - 1], batch[n]),
                                                    IntOf(batch[n - 2], batch[n - 1]))]]
            ELSE [prefix |-> batch_prefix, date |-> NaT]
    ELSE [prefix |-> NoPrefix, date |-> NaT]

parse_batch(batch) ==
    IF Len(batch) >= MinBatchLen
    THEN LET n == Len(batch)
             batch_prefix == SubSeq(batch, 1, 2)
         IN IF IntOk(batch[n - 1], batch[n]) /\ IntOk(batch[n - 3], batch[n - 2])
               /\ StrptimeOk(IntOf(batch[n - 3], batch[n - 2]))
            THEN [prefix |-> batch_prefix,
                  date |-> [known |-> TRUE,
                            ord |-> StrptimeOrdinal(2000 + IntOf(batch[n - 1], batch[n]),
                                                    IntOf(batch[n - 3], batch[n - 2]))]]
            ELSE [prefix |-> batch_prefix, date |-> NaT]
    ELSE [prefix |-> NoPrefix, date |-> NaT]

\* column == scalar on the Batch Prefix column: a missing prefix equals nothing.
PrefixEq(a, b) == a # NoPrefix /\ b # NoPrefix /\ a = b

\* abs((target date - unit date).dt.days) > 364, both dates known
TooFar(d1, d2) == Abs(d1.ord - d2.ord) > DateWindow

----------------------------------------------------------------------------
(***************************************************************************)
(* Input tables.  A source row is one stock unit occurrence in an endcap   *)
(* bin; a target row is one row of the Open Space sheet.  The columns that *)
(* the assignment logic only copies through (Total Stock) are left out.    *)
(***************************************************************************)
SRow(bin, type, material, batch, unit) ==
    [Bin |-> bin, Type |-> type, Material |-> material, Batch |-> batch, Unit |-> unit]

TRow(type, bin, material, batch, capacity, count, avail, util) ==
    [Type |-> type, Bin |-> bin, Material |-> material, Batch |-> batch,
     Capacity |-> capacity, Count |-> count, Avail |-> avail, Util |-> util]

\* Batch codes: two-character prefix, filler, week (2 digits), year (2 digits).
B_AB_W01_24 == <<"A", "B", "0", "0", "0", "0", "0", "1", "2", "4">>  \* 2024-01-01
B_AB_W53_24 == <<"A", "B", "0", "0", "0", "0", "5", "3", "2", "4">>  \* 2024-12-30
B_AB_W01_25 == <<"A", "B", "0", "0", "0", "0", "0", "1", "2", "5">>  \* 2025-01-06
B_CD_W01_24 == <<"C", "D", "0", "0", "0", "0", "0", "1", "2", "4">>  \* other prefix
B_AB_WXX_24 == <<"A", "B", "0", "0", "0", "0", "W", "1", "2", "4">>  \* week not a number
B_AB0324W1 == <<"A", "B", "0", "3", "2", "4", "W", "1">>             \* 8 characters
B_AB0324W9 == <<"A", "B", "0", "3", "2", "4", "W", "9">>             \* 8 characters

\* The caller's selections in the two multiselect widgets.
selected_types == {"EC"}
move_into_types == {"OS", "VIR"}

\* The rows the generic sheets are made of.
SrcRowPool ==
    << SRow("A1", "EC", "M1", B_AB_W01_24, "U1"),
       SRow("A1", "EC", "M1", B_AB_W01_24, "U2"),
       SRow("A1", "EC", "M1", B_AB_W53_24, "U1"),
       SRow("A1", "EC", "M1", B_AB0324W1, "U2"),
       SRow("A1", "EC", "M2", B_AB_W01_24, "U3"),
       SRow("B1", "EC", "M1", B_AB_W01_24, "U1"),
       SRow("B1", "FL", "M1", B_AB_W01_24, "U2") >>

TgtRowPool ==
    << TRow("OS", "B2", "M1", B_AB_W01_24, 5, 3, 2, 60),
       TRow("OS", "B2", "M1", B_AB_W01_25, 5, 4, 1, 80),
       TRow("OS", "B2", "M2", B_AB_W01_24, 5, 4, 1, 80),
       TRow("OS", "B1", "M1", B_AB_W01_24, 5, 3, 2, 60),
       TRow("OS", "B3", "M1", B_AB_W53_24, 5, 2, 3, 40),
       TRow("OS", "A1", "M1", B_AB_W01_24, 5, 0, 5, 0),
       TRow("VIR", "B3", "M1", B_AB_W01_24, 5, 0, 5, 0),
       TRow("HR", "B3", "M1", B_AB_W01_24, 5, 0, 5, 0),
       TRow("OS", "B3", "M1", B_AB_W01_24, 4, 4, 1, 100) >>

\* The sheets of 1..n rows of the pool (rows may repeat), listed in the
\* order of the pool.
Sheets(pool, n) ==
    UNION {{[i \in 1..k |-> pool[f[i]]] :
              f \in {g \in [1..k -> DOMAIN pool] :
                       \A i \in 1..(k - 1) : g[i] <= g[i + 1]}} : k \in 1..n}


----------------------------------------------------------------------------
(***************************************************************************)
(* Normalisation (steps 1-5 of the core processing).                       *)
(***************************************************************************)
\* Lexicographic order of the unit identifiers, as groupby() sorts its keys.
UnitOrder == <<"U0", "U1", "U2", "U3", "U4", "U5", "U6", "U7", "U8", "U9">>

UnitRank(u) == CHOOSE i \in DOMAIN UnitOrder : UnitOrder[i] = u

\* Variant: the VIR filter left out.
FilterVIR_Dropped(rows) == rows

\* open_space_df[open_space_df["Storage Type"] != "VIR"]
FilterVIR(rows) == SelectSeq(rows, LAMBDA r : r.Type # "VIR")

\* endcaps_df[endcaps_df["Storage Type"].isin(selected_types)]
FilterSelected(rows) == SelectSeq(rows, LAMBDA r : r.Type \in selected_types)

UnitsOfBin(rows, bin) == {r.Unit : r \in {x \in Range(rows) : x.Bin = bin}}

\* groupby("Storage Bin")["Storage Unit"].nunique()
su_count_per_bin(rows, bin) == Cardinality(UnitsOfBin(rows, bin))

\* The units of a set, in key order.
RECURSIVE UnitSeq(_)
UnitSeq(S) ==
    IF S = {} THEN <<>>
    ELSE LET u == CHOOSE x \in S : \A y \in S : UnitRank(x) <= UnitRank(y)
         IN <<u>> \o UnitSeq(S \ {u})

BatchesOf(rows, bin, unit) ==
    LET own == SelectSeq(rows, LAMBDA r : r.Bin = bin /\ r.Unit = unit)
    IN [i \in 1..Len(own) |-> own[i].Batch]

\* su_batches[su_batches["Storage Bin"] == storage_bin]: one row per unit of
\* the bin, in key order, each with the list of its batches in sheet order.
su_batches(rows, bin) ==
    LET us == UnitSeq(UnitsOfBin(rows, bin))
    IN [i \in 1..Len(us) |-> [Unit |-> us[i], Batch |-> BatchesOf(rows, bin, us[i])]]

\* Source rows with the merged count column and the parsed batch columns.
EnrichSource(rows) ==
    [i \in 1..Len(rows) |->
        [Bin |-> rows[i].Bin, Type |-> rows[i].Type, Material |-> rows[i].Material,
         Batch |-> rows[i].Batch, Unit |-> rows[i].Unit,
         Total |-> su_count_per_bin(rows, rows[i].Bin),
         Prefix |-> parse_batch(rows[i].Batch).prefix,
         Date |-> parse_batch(rows[i].Batch).date]]

\* Target rows with the parsed batch columns.
EnrichTarget(rows) ==
    [i \in 1..Len(rows) |->
        [Type |-> rows[i].Type, Bin |-> rows[i].Bin, Material |-> rows[i].Material,
         Batch |-> rows[i].Batch, Capacity |-> rows[i].Capacity,
         Count |-> rows[i].Count, Avail |-> rows[i].Avail, Util |-> rows[i].Util,
         Prefix |-> parse_batch(rows[i].Batch).prefix,
         Date |-> parse_batch(rows[i].Batch).date]]

\* open_space_df.sort_values("SU Count", ascending=False)
ByCountDesc(rows) == SortOrders(rows, [i \in DOMAIN rows |-> -rows[i].Count])

\* The working copy: allowed storage type, not full, capacity left, not a
\* used source bin (none is used when it is built).
InitialAvailable(rows, used) ==
    SelectSeq(rows, LAMBDA r : /\ r.Type \in move_into_types
                               /\ r.Util < FullUtilization
                               /\ r.Avail > 0
                               /\ r.Bin \notin used)

RECURSIVE SetToSeq(_)
SetToSeq(S) ==
    IF S = {} THEN <<>>
    ELSE LET x == CHOOSE y \in S : TRUE IN <<x>> \o SetToSeq(S \ {x})

\* Indices of rows by ascending key, equal keys in index order.
RECURSIVE OrderIdx(_, _)
OrderIdx(S, key) ==
    IF S = {} THEN <<>>
    ELSE LET i == CHOOSE x \in S : \A y \in S :
                      key[x] < key[y] \/ (key[x] = key[y] /\ x <= y)
         IN <<i>> \o OrderIdx(S \ {i}, key)

\* endcaps_df.sort_values("Total Unique SU Count"): rows by ascending count.
\* The sort is not stable, so which row of a bin comes first - the row the
\* loop reads the bin's material, prefix and type from - is not determined
\* by the code.  rep names that row for every bin; the other rows of equal
\* count keep the order of the sheet.
Arrange(rows, rep) ==
    LET key == [i \in DOMAIN rows |->
                   2 * rows[i].Total + (IF rep[rows[i].Bin] = i THEN 0 ELSE 1)]
        idx == OrderIdx(DOMAIN rows, key)
    IN [k \in DOMAIN rows |-> rows[idx[k]]]

RowOrders(rows) ==
    LET bins == {rows[i].Bin : i \in DOMAIN rows}
    IN {Arrange(rows, rep) :
          rep \in {f \in [bins -> DOMAIN rows] : \A b \in bins : rows[f[b]].Bin = b}}

\* Variant: the bins by descending count.
SortedBinOrders_Descending(rows) ==
    LET bins == SetToSeq({r.Bin : r \in Range(rows)})
    IN SortOrders(bins, [i \in DOMAIN bins |-> -su_count_per_bin(rows, bins[i])])

\* Variant: the sort by unit count left out, the bins in any order.
SortedBinOrders_Unsorted(rows) ==
    LET bins == SetToSeq({r.Bin : r \in Range(rows)})
    IN SortOrders(bins, [i \in DOMAIN bins |-> 0])

\* groupby("Storage Bin").first().sort_values("Total Unique SU Count").index:
\* the bin ids by ascending count, bins of equal count in any order.
SortedBinOrders(rows) ==
    LET bins == SetToSeq({r.Bin : r \in Range(rows)})
    IN SortOrders(bins, [i \in DOMAIN bins |-> su_count_per_bin(rows, bins[i])])

----------------------------------------------------------------------------
(***************************************************************************)
(* Pieces shared by the two move policies.                                 *)
(***************************************************************************)
\* endcaps_df[endcaps_df["Storage Bin"] == storage_bin]
BinGroup(rows, storage_bin) == SelectSeq(rows, LAMBDA r : r.Bin = storage_bin)

\* Variant: the used-source exclusion left out of the candidate filter.
NotUsedSource_Dropped(r, used) == TRUE

\* ~available_bins["Storage Bin"].isin(used_source_bins)
NotUsedSource(r, used) == r.Bin \notin used

\* Variant: the material condition left out of the candidate filter.
Compatible_AnyMaterial(r, bin_group, storage_bin) ==
    /\ PrefixEq(r.Prefix, bin_group[1].Prefix)
    /\ r.Bin # storage_bin

\* material, batch prefix and bin id conditions of the matching_bins filter
Compatible(r, bin_group, storage_bin) ==
    /\ r.Material = bin_group[1].Material
    /\ PrefixEq(r.Prefix, bin_group[1].Prefix)
    /\ r.Bin # storage_bin

\* matching_bins.dropna(subset=["Batch Date"])
DropNaDate(rows) == SelectSeq(rows, LAMBDA r : r.Date.known)

\* sort_values("Avail SU", ascending=False)
ByAvailDesc(rows) == SortOrders(rows, [i \in DOMAIN rows |-> -rows[i].Avail])

\* Variant: the pd.isna() check on the unit's date left out.
DateGate_NoIsNa(open_space_bin, matching_bins, bin_group) ==
    \A i \in DOMAIN bin_group :
        bin_group[i].Date.known
           => ~\E j \in DOMAIN matching_bins :
                  TooFar(matching_bins[j].Date, bin_group[i].Date)

\* Variant: only the first row of the source bin is compared.
DateGate_FirstRowOnly(open_space_bin, matching_bins, bin_group) ==
    /\ bin_group[1].Date.known
    /\ ~\E j \in DOMAIN matching_bins :
           TooFar(matching_bins[j].Date, bin_group[1].Date)

\* "Verify batch date compatibility for ALL items": every row of the source
\* bin has a date, and no row of matching_bins is more than 364 days from it.
\* The candidate under test (open_space_bin) is not consulted.
DateGate(open_space_bin, matching_bins, bin_group) ==
    \A i \in DOMAIN bin_group :
        /\ bin_group[i].Date.known
        /\ ~\E j \in DOMAIN matching_bins :
               TooFar(matching_bins[j].Date, bin_group[i].Date)

\* rows of one bin, material and prefix (target_batches)
TargetBatches(rows, open_space_bin) ==
    SelectSeq(rows, LAMBDA r : /\ r.Bin = open_space_bin.Bin
                               /\ r.Material = open_space_bin.Material
                               /\ PrefixEq(r.Prefix, open_space_bin.Prefix))

\* rows.loc[rows["Batch Date"].idxmin(), batch column]: first row of the
\* smallest known date.
OldestBatch(rows) ==
    LET K == {i \in DOMAIN rows : rows[i].Date.known}
        m == CHOOSE i \in K : /\ \A j \in K : rows[i].Date.ord <= rows[j].Date.ord
                              /\ \A j \in K : rows[j].Date.ord = rows[i].Date.ord => i <= j
    IN rows[m].Batch

\* rows.loc[rows["Batch Date"].idxmax(), batch column]
NewestBatch(rows) ==
    LET K == {i \in DOMAIN rows : rows[i].Date.known}
        m == CHOOSE i \in K : /\ \A j \in K : rows[i].Date.ord >= rows[j].Date.ord
                              /\ \A j \in K : rows[j].Date.ord = rows[i].Date.ord => i <= j
    IN rows[m].Batch

\* One assignment row.
Assignment(open_space_bin, storage_bin, bin_group, oldest_target, batch, remaining, unit) ==
    [TargetType |-> open_space_bin.Type, TargetBin |-> open_space_bin.Bin,
     SourceBin |-> storage_bin, SourceType |-> bin_group[1].Type,
     Material |-> bin_group[1].Material, OldestTarget |-> oldest_target,
     Batch |-> batch, Capacity |-> open_space_bin.Capacity, Qty |-> 1,
     Remaining |-> remaining, Unit |-> unit]

\* Variant: one row per unit, carrying the unit's first batch.
UnitRows_FirstBatch(open_space_bin, storage_bin, bin_group, oldest_target, remaining, su_info) ==
    << Assignment(open_space_bin, storage_bin, bin_group, oldest_target,
                  su_info.Batch[1], remaining, su_info.Unit) >>

\* The rows of one unit: one per batch of the unit.
UnitRows(open_space_bin, storage_bin, bin_group, oldest_target, remaining, su_info) ==
    [k \in 1..Len(su_info.Batch) |->
        Assignment(open_space_bin, storage_bin, bin_group, oldest_target,
                   su_info.Batch[k], remaining, su_info.Unit)]

\* available_bins.loc[available_bins["Storage Bin"] == bin, "Avail SU"] -= n
SubAvail(rows, bin, n) ==
    [i \in DOMAIN rows |->
        IF rows[i].Bin = bin THEN [rows[i] EXCEPT !.Avail = @ - n] ELSE rows[i]]

----------------------------------------------------------------------------
(***************************************************************************)
(* Full moves: the whole source bin goes to one target.                    *)
(***************************************************************************)
\* available_bins["Avail SU"] >= total_su_in_bin
FitsWhole(r, total_su_in_bin) == r.Avail >= total_su_in_bin

FullMatching(avail, bin_group, storage_bin, total_su_in_bin, used) ==
    DropNaDate(SelectSeq(avail, LAMBDA r : /\ Compatible(r, bin_group, storage_bin)
                                          /\ FitsWhole(r, total_su_in_bin)
                                          /\ NotUsedSource(r, used)))

\* Index of the first candidate that passes the gate, 0 if none does.
FirstValid(matching_bins, bin_group) ==
    LET ok == {j \in DOMAIN matching_bins :
                 DateGate(matching_bins[j], matching_bins, bin_group)}
    IN IF ok = {} THEN 0 ELSE CHOOSE j \in ok : \A k \in ok : j <= k

\* open_space_bin["Avail SU"] - total_su_in_bin
FullRemaining(open_space_bin, total_su_in_bin) == open_space_bin.Avail - total_su_in_bin

RECURSIVE FullAssignments(_, _, _, _, _, _)
FullAssignments(units, open_space_bin, storage_bin, bin_group, oldest_target, total) ==
    IF units = <<>> THEN <<>>
    ELSE UnitRows(open_space_bin, storage_bin, bin_group, oldest_target,
                  FullRemaining(open_space_bin, total), Head(units))
         \o FullAssignments(Tail(units), open_space_bin, storage_bin, bin_group,
                            oldest_target, total)

\* Variant: source and target bin written to each other's column.
FullSummary_Swapped(open_space_bin, storage_bin, bin_group, target_batches, total) ==
    [TargetType |-> open_space_bin.Type, SourceType |-> bin_group[1].Type,
     TargetBin |-> storage_bin, SourceBin |-> open_space_bin.Bin,
     Material |-> bin_group[1].Material,
     OldestTarget |-> OldestBatch(target_batches),
     NewestTarget |-> NewestBatch(target_batches),
     OldestSource |-> OldestBatch(bin_group), NewestSource |-> NewestBatch(bin_group),
     Capacity |-> open_space_bin.Capacity, Count |-> open_space_bin.Count,
     AvailBefore |-> open_space_bin.Avail, Moved |-> total]

FullSummary(open_space_bin, storage_bin, bin_group, target_batches, total) ==
    [TargetType |-> open_space_bin.Type, SourceType |-> bin_group[1].Type,
     TargetBin |-> open_space_bin.Bin, SourceBin |-> storage_bin,
     Material |-> bin_group[1].Material,
     OldestTarget |-> OldestBatch(target_batches),
     NewestTarget |-> NewestBatch(target_batches),
     OldestSource |-> OldestBatch(bin_group), NewestSource |-> NewestBatch(bin_group),
     Capacity |-> open_space_bin.Capacity, Count |-> open_space_bin.Count,
     AvailBefore |-> open_space_bin.Avail, Moved |-> total]

\* Variant: one unit taken from the target whatever the size of the bin.
FullCommitAvail_OneUnit(rows, open_space_bin, total_su_in_bin) ==
    SubAvail(rows, open_space_bin.Bin, 1)

\* "Update tracking": the capacity taken from the committed target.
FullCommitAvail(rows, open_space_bin, total_su_in_bin) ==
    SubAvail(rows, open_space_bin.Bin, total_su_in_bin)

----------------------------------------------------------------------------
(***************************************************************************)
(* Partial moves: the source bin may be split over several targets.        *)
(***************************************************************************)
PartialMatching(avail, bin_group, storage_bin, used) ==
    DropNaDate(SelectSeq(avail, LAMBDA r : /\ Compatible(r, bin_group, storage_bin)
                                          /\ NotUsedSource(r, used)))

\* Variant: the SU Capacity column read in place of Avail SU.
CurrentAvail_Capacity(temp, bin) ==
    temp[CHOOSE i \in DOMAIN temp : temp[i].Bin = bin
                                    /\ \A j \in 1..(i - 1) : temp[j].Bin # bin].Capacity

\* temp_available_bins.loc[bin == open_space_bin bin, "Avail SU"].values[0]
CurrentAvail(temp, bin) ==
    temp[CHOOSE i \in DOMAIN temp : temp[i].Bin = bin
                                    /\ \A j \in 1..(i - 1) : temp[j].Bin # bin].Avail

\* Variant: the cap by the target's capacity left out.
SuToMove_Uncapped(remaining_su, current_avail) == remaining_su

\* min(remaining_su, current_avail)
SuToMove(remaining_su, current_avail) == Min2(remaining_su, current_avail)

\* current_avail - 1, the "updated remaining capacity" column
PartialRemaining(current_avail) == current_avail - 1

\* The inner loop over bin_su_batches for one target row.  st holds the loop
\* state: temp (temp_available_bins), avail (available_bins), remaining
\* (remaining_su), assigned (assigned_sus), out (rows appended to assignments).
RECURSIVE AssignUnits(_, _, _, _, _, _, _, _)
AssignUnits(units, st, su_to_move, open_space_bin, current_avail, oldest_target, storage_bin, bin_group) ==
    IF units = <<>> THEN st
    ELSE IF Head(units).Unit \in st.assigned
    THEN AssignUnits(Tail(units), st, su_to_move, open_space_bin, current_avail,
                     oldest_target, storage_bin, bin_group)
    ELSE IF su_to_move <= 0 THEN st
    ELSE AssignUnits(Tail(units),
                     [st EXCEPT
                        !.out = @ \o UnitRows(open_space_bin, storage_bin, bin_group,
                                              oldest_target,
                                              PartialRemaining(current_avail), Head(units)),
                        !.assigned = @ \cup {Head(units).Unit},
                        !.remaining = @ - 1,
                        !.temp = SubAvail(@, open_space_bin.Bin, 1),
                        !.avail = SubAvail(@, open_space_bin.Bin, 1)],
                     su_to_move - 1, open_space_bin, current_avail, oldest_target,
                     storage_bin, bin_group)

\* The loop over the rows of temp_available_bins.  The loop variables that
\* the summary row reads after the loop (open_space_bin, current_avail,
\* oldest_target, newest_target) are kept in st.
RECURSIVE SpillLoop(_, _, _, _, _)
SpillLoop(todo, st, units, storage_bin, bin_group) ==
    IF todo = <<>> THEN st
    ELSE IF st.remaining <= 0 THEN [st EXCEPT !.open_space_bin = Head(todo)]
    ELSE LET open_space_bin == Head(todo)
             current_avail == CurrentAvail(st.temp, open_space_bin.Bin)
             su_to_move == SuToMove(st.remaining, current_avail)
             st0 == [st EXCEPT !.open_space_bin = open_space_bin,
                               !.current_avail = current_avail]
         IN IF su_to_move <= 0
            THEN SpillLoop(Tail(todo), st0, units, storage_bin, bin_group)
            ELSE LET target_batches == TargetBatches(st.temp, open_space_bin)
                     st1 == [st0 EXCEPT !.oldest_target = OldestBatch(target_batches),
                                        !.newest_target = NewestBatch(target_batches)]
                 IN SpillLoop(Tail(todo),
                              AssignUnits(units, st1, su_to_move, open_space_bin,
                                          current_avail, st1.oldest_target,
                                          storage_bin, bin_group),
                              units, storage_bin, bin_group)

\* assignments[-total_su_in_bin:]
LastRows(rows, n) ==
    SubSeq(rows, IF Len(rows) > n THEN Len(rows) - n + 1 ELSE 1, Len(rows))

\* Variant: the target columns always name the last assignment row's bin.
PartialSummary_LastTarget(st, all, storage_bin, bin_group, total) ==
    [TargetType |-> all[Len(all)].TargetType,
     SourceType |-> bin_group[1].Type,
     TargetBin |-> all[Len(all)].TargetBin,
     SourceBin |-> storage_bin,
     Material |-> bin_group[1].Material,
     OldestTarget |-> st.oldest_target, NewestTarget |-> st.newest_target,
     OldestSource |-> OldestBatch(bin_group), NewestSource |-> NewestBatch(bin_group),
     Capacity |-> st.open_space_bin.Capacity, Count |-> st.open_space_bin.Count,
     AvailBefore |-> st.current_avail + 1, Moved |-> total]

\* The summary row of a committed partial move (lines 237-251).
PartialSummary(st, all, storage_bin, bin_group, total) ==
    LET multiple == Cardinality({a.TargetBin : a \in Range(LastRows(all, total))}) > 1
    IN [TargetType |-> IF multiple THEN "Multiple" ELSE all[Len(all)].TargetType,
        SourceType |-> bin_group[1].Type,
        TargetBin |-> IF multiple THEN "Multiple" ELSE all[Len(all)].TargetBin,
        SourceBin |-> storage_bin,
        Material |-> bin_group[1].Material,
        OldestTarget |-> st.oldest_target, NewestTarget |-> st.newest_target,
        OldestSource |-> OldestBatch(bin_group), NewestSource |-> NewestBatch(bin_group),
        Capacity |-> st.open_space_bin.Capacity, Count |-> st.open_space_bin.Count,
        AvailBefore |-> st.current_avail + 1, Moved |-> total]

----------------------------------------------------------------------------
(***************************************************************************)
(* The inputs of a run: every pair of sheets of bounded length over the    *)
(* row pools, and the worked scenarios of the specification.               *)
(***************************************************************************)
B_AB_W03_24 == <<"A", "B", "0", "0", "0", "0", "0", "3", "2", "4">>  \* 2024-01-15
B_AB_W09_24 == <<"A", "B", "0", "0", "0", "0", "0", "9", "2", "4">>  \* 2024-02-26

\* Scenario A as written: eight-character batch codes.
ScenarioA ==
    [src |-> <<SRow("A1", "EC", "M100", B_AB0324W1, "U1"),
               SRow("A1", "EC", "M100", B_AB0324W1, "U2")>>,
     tgt |-> <<TRow("OS", "B1", "M100", B_AB0324W9, 8, 3, 5, 40)>>]

\* Scenario A with ten-character batch codes (weeks 3 and 9 of 2024).
ScenarioA10 ==
    [src |-> <<SRow("A1", "EC", "M100", B_AB_W03_24, "U1"),
               SRow("A1", "EC", "M100", B_AB_W03_24, "U2")>>,
     tgt |-> <<TRow("OS", "B1", "M100", B_AB_W09_24, 8, 3, 5, 40)>>]

\* Scenario E: ten units facing targets with capacity 6 and 4.
ScenarioE ==
    [src |-> [i \in 1..10 |-> SRow("A1", "EC", "M1", B_AB_W01_24, UnitOrder[i])],
     tgt |-> <<TRow("OS", "B2", "M1", B_AB_W01_24, 10, 4, 6, 40),
               TRow("OS", "B3", "M1", B_AB_W03_24, 10, 6, 4, 60)>>]

Scenarios == {ScenarioA, ScenarioA10, ScenarioE}

\* Sheets that the filters of steps 1-2 leave without rows are left out:
\* step 5 builds the two parsed columns from the rows (lines 99-100).
Inputs ==
    {[src |-> s, tgt |-> t] :
        s \in {x \in Sheets(SrcRowPool, MaxSrcRows) : FilterSelected(x) # <<>>},
        t \in {y \in Sheets(TgtRowPool, MaxTgtRows) : FilterVIR(y) # <<>>}}
    \cup Scenarios

\* The Utilization % column of the output sheet, as an exact fraction.
Percent(num, den) == [num |-> num, den |-> den]

\* updated_open_space_df = open_space_df.copy()
CopyOpenSpace(rows) ==
    [i \in DOMAIN rows |-> [rows[i] EXCEPT !.Util = Percent(@, 1)]]

Init ==
    /\ \E inp \in Inputs : endcaps_in = inp.src /\ open_space_in = inp.tgt
    /\ partial_moves \in BOOLEAN
    /\ endcaps_df = <<>>
    /\ available_bins = <<>>
    /\ sorted_endcap_bins = <<>>
    /\ pos = 1
    /\ used_source_bins = {}
    /\ assignments = <<>>
    /\ summary_data = <<>>
    /\ updated_open_space_df = CopyOpenSpace(open_space_in)
    /\ updated_endcaps_df = endcaps_in
    /\ pc = "upload"

\* "Process Files": steps 1-5 and the set-up of the assignment loop.
Normalize ==
    /\ pc = "upload"
    /\ LET kept == FilterSelected(endcaps_in)
       IN /\ endcaps_df' \in RowOrders(EnrichSource(kept))
          /\ sorted_endcap_bins' \in SortedBinOrders(kept)
    /\ \E open_space_df \in ByCountDesc(EnrichTarget(FilterVIR(open_space_in))) :
          available_bins' = InitialAvailable(open_space_df, used_source_bins)
    /\ pc' = "loop"
    /\ UNCHANGED <<endcaps_in, open_space_in, partial_moves, pos, used_source_bins,
                   assignments, summary_data, updated_open_space_df,
                   updated_endcaps_df>>


\* One pass of the loop over sorted_endcap_bins, full-move branch.
FullMove ==
    /\ pc = "loop"
    /\ ~partial_moves
    /\ pos <= Len(sorted_endcap_bins)
    /\ pos' = pos + 1
    /\ LET storage_bin == sorted_endcap_bins[pos]
           bin_group == BinGroup(endcaps_df, storage_bin)
           total_su_in_bin == bin_group[1].Total
           bin_su_batches == su_batches(FilterSelected(endcaps_in), storage_bin)
       IN IF storage_bin \in used_source_bins
          THEN UNCHANGED <<available_bins, used_source_bins, assignments, summary_data>>
          ELSE \E matching_bins \in
                    ByAvailDesc(FullMatching(available_bins, bin_group, storage_bin,
                                             total_su_in_bin, used_source_bins)) :
                 LET k == FirstValid(matching_bins, bin_group)
                 IN IF k = 0
                    THEN UNCHANGED <<available_bins, used_source_bins, assignments,
                                     summary_data>>
                    ELSE LET open_space_bin == matching_bins[k]
                             target_batches == TargetBatches(available_bins, open_space_bin)
                         IN /\ assignments' = assignments \o
                                   FullAssignments(bin_su_batches, open_space_bin,
                                                   storage_bin, bin_group,
                                                   OldestBatch(target_batches),
                                                   total_su_in_bin)
                            /\ summary_data' = Append(summary_data,
                                   FullSummary(open_space_bin, storage_bin, bin_group,
                                               target_batches, total_su_in_bin))
                            /\ used_source_bins' = used_source_bins \cup {storage_bin}
                            /\ available_bins' = FullCommitAvail(available_bins,
                                                                open_space_bin,
                                                                total_su_in_bin)
    /\ UNCHANGED <<endcaps_in, open_space_in, partial_moves, endcaps_df,
                   sorted_endcap_bins, updated_open_space_df, updated_endcaps_df, pc>>

\* for every row of the source bin the date is known and no candidate is
\* further than the window (partial-move gate, before the capacity check)
PartialGate(matching_bins, bin_group) ==
    DateGate(matching_bins[1], matching_bins, bin_group)

\* matching_bins["Avail SU"].sum() >= total_su_in_bin
EnoughTotal(matching_bins, total_su_in_bin) == SumAvail(matching_bins) >= total_su_in_bin

\* One pass of the loop over sorted_endcap_bins, partial-move branch.
PartialMove ==
    /\ pc = "loop"
    /\ partial_moves
    /\ pos <= Len(sorted_endcap_bins)
    /\ pos' = pos + 1
    /\ LET storage_bin == sorted_endcap_bins[pos]
           bin_group == BinGroup(endcaps_df, storage_bin)
           total_su_in_bin == bin_group[1].Total
           bin_su_batches == su_batches(FilterSelected(endcaps_in), storage_bin)
       IN IF storage_bin \in used_source_bins
          THEN UNCHANGED <<available_bins, used_source_bins, assignments, summary_data>>
          ELSE \E matching_bins \in
                    ByAvailDesc(PartialMatching(available_bins, bin_group, storage_bin,
                                                used_source_bins)) :
                 IF \/ matching_bins = <<>>
                    \/ ~PartialGate(matching_bins, bin_group)
                    \/ ~EnoughTotal(matching_bins, total_su_in_bin)
                 THEN UNCHANGED <<available_bins, used_source_bins, assignments,
                                  summary_data>>
                 ELSE LET st == SpillLoop(matching_bins,
                                    [temp |-> matching_bins, avail |-> available_bins,
                                     remaining |-> total_su_in_bin, assigned |-> {},
                                     out |-> <<>>, open_space_bin |-> matching_bins[1],
                                     current_avail |-> 0, oldest_target |-> <<>>,
                                     newest_target |-> <<>>],
                                    bin_su_batches, storage_bin, bin_group)
                      IN /\ assignments' = assignments \o st.out
                         /\ available_bins' = st.avail
                         /\ IF st.remaining = 0
                            THEN /\ used_source_bins' = used_source_bins \cup {storage_bin}
                                 /\ summary_data' = Append(summary_data,
                                        PartialSummary(st, assignments \o st.out,
                                                       storage_bin, bin_group,
                                                       total_su_in_bin))
                            ELSE UNCHANGED <<used_source_bins, summary_data>>
    /\ UNCHANGED <<endcaps_in, open_space_in, partial_moves, endcaps_df,
                   sorted_endcap_bins, updated_open_space_df, updated_endcaps_df, pc>>

\* The write-back loop over available_bins: every row of the output sheet
\* with the row's bin id gets the row's capacity figures.
RECURSIVE WriteBackRows(_, _)
WriteBackRows(todo, out) ==
    IF todo = <<>> THEN out
    ELSE LET row == Head(todo)
         IN WriteBackRows(Tail(todo),
                [i \in DOMAIN out |->
                    IF out[i].Bin = row.Bin
                    THEN [out[i] EXCEPT !.Avail = row.Avail,
                                        !.Count = row.Capacity - row.Avail,
                                        !.Util = Percent((row.Capacity - row.Avail) * 100,
                                                         row.Capacity)]
                    ELSE out[i]])

\* updated_endcaps_df[~updated_endcaps_df["Storage Bin"].isin(used_source_bins)]
RemoveMoved(rows, used) == SelectSeq(rows, LAMBDA r : r.Bin \notin used)

\* After the loop: update the output sheets.
WriteBack ==
    /\ pc = "loop"
    /\ pos > Len(sorted_endcap_bins)
    /\ updated_open_space_df' = WriteBackRows(available_bins, updated_open_space_df)
    /\ updated_endcaps_df' = RemoveMoved(updated_endcaps_df, used_source_bins)
    /\ pc' = "done"
    /\ UNCHANGED <<endcaps_in, open_space_in, partial_moves, endcaps_df, available_bins,
                   sorted_endcap_bins, pos, used_source_bins, assignments, summary_data>>

Next == Normalize \/ FullMove \/ PartialMove \/ WriteBack

Spec == Init /\ [][Next]_vars

----------------------------------------------------------------------------
(***************************************************************************)
(* Vocabulary of the properties.                                           *)
(***************************************************************************)
InLoop == pc = "loop" /\ pos <= Len(sorted_endcap_bins)

CurBin == sorted_endcap_bins[pos]

CurGroup == BinGroup(endcaps_df, CurBin)

CurTotal == CurGroup[1].Total

\* Rows appended to assignments by the step.
NewAssignments == SubSeq(assignments', Len(assignments) + 1, Len(assignments'))

RowsOfSource(bin) == {i \in DOMAIN assignments : assignments[i].SourceBin = bin}

SourceBins == {r.Bin : r \in Range(FilterSelected(endcaps_in))}

\* Target row t can take the whole of the source bin under the conditions
\* of the full-move policy, judged on t alone.
TakesWhole(t, bin_group, storage_bin, used) ==
    /\ t.Material = bin_group[1].Material
    /\ PrefixEq(t.Prefix, bin_group[1].Prefix)
    /\ t.Bin # storage_bin
    /\ t.Bin \notin used
    /\ t.Avail >= bin_group[1].Total
    /\ t.Date.known
    /\ \A i \in DOMAIN bin_group :
          bin_group[i].Date.known /\ ~TooFar(t.Date, bin_group[i].Date)

----------------------------------------------------------------------------
\* C1: whenever every uploaded target row has available capacity >= 0, every
\* row of the working target table has Avail SU >= 0 after every commit and
\* at the end of the run, in both modes.  (Fails: a commit subtracts from
\* every row that carries the target's bin id.)
C1_AvailNeverNegative ==
    (\A i \in DOMAIN open_space_in : open_space_in[i].Avail >= 0)
        => \A i \in DOMAIN available_bins : available_bins[i].Avail >= 0

\* C2: in full-move mode, when the source bin being processed has only known
\* batch dates and some target row on its own takes the whole bin (material,
\* prefix, capacity, within 364 days of every unit), the step commits exactly
\* one pairing for that bin.  (Fails: the date gate reads the whole pool.)
C2_CommitsWhenTargetExists ==
    [][(/\ InLoop /\ ~partial_moves
        /\ CurBin \notin used_source_bins
        /\ \E i \in DOMAIN available_bins :
              TakesWhole(available_bins[i], CurGroup, CurBin, used_source_bins))
       => /\ Len(summary_data') = Len(summary_data) + 1
          /\ summary_data'[Len(summary_data')].SourceBin = CurBin
          /\ CurBin \in used_source_bins']_vars

\* C3: in full-move mode every commit of source bin S into target bin T
\* lowers the available capacity of T by exactly S's unique-unit count.
C3_CommitTakesUnitCount ==
    [][(InLoop /\ ~partial_moves /\ used_source_bins' # used_source_bins)
       => LET T == summary_data'[Len(summary_data')].TargetBin
          IN /\ \E i \in DOMAIN available_bins : available_bins[i].Bin = T
             /\ \A i \in DOMAIN available_bins :
                   available_bins[i].Bin = T
                      => available_bins'[i].Avail = available_bins[i].Avail - CurTotal]_vars

C3_Witness ==
    /\ ~partial_moves
    /\ Len(summary_data) = 1
    /\ summary_data[1].Moved >= 2
    /\ \E i \in DOMAIN available_bins :
          /\ available_bins[i].Bin = summary_data[1].TargetBin
          /\ available_bins[i].Avail = summary_data[1].AvailBefore - summary_data[1].Moved

\* C4: no source bin is committed twice: the summary has at most one entry
\* per source bin, and the committed bins are exactly the bins recorded in
\* used_source_bins, each recorded once.
C4_SourceCommittedOnce ==
    /\ \A i, j \in DOMAIN summary_data :
          i # j => summary_data[i].SourceBin # summary_data[j].SourceBin
    /\ used_source_bins = {summary_data[i].SourceBin : i \in DOMAIN summary_data}
    /\ Cardinality(used_source_bins) = Len(summary_data)

C4_Witness == Len(summary_data) = 2 /\ pc = "done"

\* C5: once a source bin is in used_source_bins, no assignment row emitted
\* afterwards names it as target bin, in either mode.
C5_UsedSourceNeverTarget ==
    [][\A k \in DOMAIN NewAssignments :
          NewAssignments[k].TargetBin \notin used_source_bins]_vars

\* A committed source bin whose id is also a target row that the bin
\* processed after it could otherwise have used.
C5_Witness ==
    /\ pc = "loop"
    /\ \E k1, k2 \in DOMAIN sorted_endcap_bins :
          /\ k1 < k2 /\ k2 < pos
          /\ sorted_endcap_bins[k1] \in used_source_bins
          /\ LET later == BinGroup(endcaps_df, sorted_endcap_bins[k2])
             IN \E i \in DOMAIN available_bins :
                   /\ available_bins[i].Bin = sorted_endcap_bins[k1]
                   /\ TakesWhole(available_bins[i], later, sorted_endcap_bins[k2], {})


\* The run on the given pair of sheets has finished.
Finished(inp, partial) ==
    /\ pc = "done"
    /\ partial_moves = partial
    /\ endcaps_in = inp.src
    /\ open_space_in = inp.tgt

\* The working and the output capacity of every row of the bin.
BinEndsAt(bin, n) ==
    /\ \E i \in DOMAIN available_bins : available_bins[i].Bin = bin
    /\ \A i \in DOMAIN available_bins :
          available_bins[i].Bin = bin => available_bins[i].Avail = n
    /\ \A i \in DOMAIN updated_open_space_df :
          updated_open_space_df[i].Bin = bin => updated_open_space_df[i].Avail = n

\* One summary entry A1 -> B1, two assignment rows, B1 ends at 3.
ScenarioAOutcome ==
    /\ Len(summary_data) = 1
    /\ summary_data[1].SourceBin = "A1" /\ summary_data[1].TargetBin = "B1"
    /\ Len(assignments) = 2
    /\ \A i \in DOMAIN assignments :
          assignments[i].SourceBin = "A1" /\ assignments[i].TargetBin = "B1"
    /\ BinEndsAt("B1", 3)

\* C6 as stated: Scenario A with the batch codes "AB0324W1" and "AB0324W9"
\* ends with one summary entry A1 -> B1, two assignment rows and B1 at 3.
C6_ScenarioA_AsStated == Finished(ScenarioA, FALSE) => ScenarioAOutcome

\* C6: Scenario A in full-move mode.  With the eight-character batch codes
\* as written nothing is committed and B1 keeps its capacity of 5; with
\* batch codes of ten characters (weeks 3 and 9 of 2024) the run ends with
\* one summary entry A1 -> B1, two assignment rows and B1 at 3.
C6_ScenarioA ==
    /\ Finished(ScenarioA, FALSE)
          => summary_data = <<>> /\ assignments = <<>> /\ BinEndsAt("B1", 5)
    /\ Finished(ScenarioA10, FALSE) => ScenarioAOutcome

C6_Witness == Finished(ScenarioA10, FALSE) /\ Len(assignments) = 2

\* Bins of the processed source rows with a batch code under 10 characters.
ShortCodeBins ==
    {r.Bin : r \in {x \in Range(FilterSelected(endcaps_in)) : Len(x.Batch) < MinBatchLen}}

\* C7: a source bin with a row whose batch code is shorter than 10
\* characters is never committed and gets no assignment rows, in both modes.
C7_ShortCodeNeverAssigned ==
    \A b \in ShortCodeBins : b \notin used_source_bins /\ RowsOfSource(b) = {}

\* Such a bin has been processed although a target row matched its first
\* row in material and prefix, had a date and had room for the whole bin.
C7_Witness ==
    /\ pc = "loop"
    /\ \E k \in DOMAIN sorted_endcap_bins :
          /\ k < pos
          /\ sorted_endcap_bins[k] \in ShortCodeBins
          /\ LET g == BinGroup(endcaps_df, sorted_endcap_bins[k])
             IN \E i \in DOMAIN available_bins :
                   /\ Compatible(available_bins[i], g, sorted_endcap_bins[k])
                   /\ available_bins[i].Date.known
                   /\ available_bins[i].Avail >= g[1].Total

\* C8: no assignment row has a target of storage type "VIR", in both modes,
\* also with "VIR" in the move-into selection.
C8_NoVirTarget ==
    "VIR" \in move_into_types
        => \A i \in DOMAIN assignments : assignments[i].TargetType # "VIR"

\* A VIR row that a processed source bin could have been moved into whole.
C8_Witness ==
    /\ pc = "done"
    /\ "VIR" \in move_into_types
    /\ \E k \in DOMAIN sorted_endcap_bins :
          LET g == BinGroup(endcaps_df, sorted_endcap_bins[k])
              rows == EnrichTarget(open_space_in)
          IN \E i \in DOMAIN rows :
                /\ rows[i].Type = "VIR"
                /\ TakesWhole(rows[i], g, sorted_endcap_bins[k], {})

\* Scenario D: two source bins, small and large, and one row in the working
\* target table; each bin fits the row on its own, but large does not fit
\* what small leaves.
ScenarioD(small, large) ==
    LET tgt == InitialAvailable(EnrichTarget(FilterVIR(open_space_in)), {})
        g1 == BinGroup(endcaps_df, small)
        g2 == BinGroup(endcaps_df, large)
    IN /\ ~partial_moves
       /\ SourceBins = {small, large}
       /\ Len(tgt) = 1
       /\ TakesWhole(tgt[1], g1, small, {})
       /\ TakesWhole(tgt[1], g2, large, {})
       /\ g1[1].Total < g2[1].Total
       /\ tgt[1].Avail - g1[1].Total < g2[1].Total

\* C9: in Scenario D exactly one pairing is committed, that of the smaller
\* bin, and the other bin ends unmatched with no assignment rows.
C9_ScenarioD ==
    \A small, large \in SourceBins :
        (pc = "done" /\ ScenarioD(small, large))
            => /\ Len(summary_data) = 1
               /\ summary_data[1].SourceBin = small
               /\ used_source_bins = {small}
               /\ RowsOfSource(large) = {}
               /\ RowsOfSource(small) # {}

C9_Witness ==
    /\ pc = "done"
    /\ \E small, large \in SourceBins : ScenarioD(small, large)
    /\ Len(summary_data) = 1

\* C10: Scenario E in partial-move mode: six units go to the target with
\* capacity 6, four to the target with capacity 4, the source bin is
\* recorded as consumed and both targets end at 0.
C10_ScenarioE ==
    Finished(ScenarioE, TRUE)
        => /\ Cardinality({assignments[i].Unit :
                             i \in {j \in DOMAIN assignments :
                                      assignments[j].TargetBin = "B2"}}) = 6
           /\ Cardinality({assignments[i].Unit :
                             i \in {j \in DOMAIN assignments :
                                      assignments[j].TargetBin = "B3"}}) = 4
           /\ Len(assignments) = 10
           /\ \A i \in DOMAIN assignments : assignments[i].SourceBin = "A1"
           /\ used_source_bins = {"A1"}
           /\ BinEndsAt("B2", 0)
           /\ BinEndsAt("B3", 0)

C10_Witness == Finished(ScenarioE, TRUE) /\ "A1" \in used_source_bins

\* C11: atomic commit in partial-move mode: a pass over a source bin either
\* assigns all of the bin's units and records the bin as consumed, or emits
\* no assignment row and leaves every target's available capacity as it
\* was.  (Fails: when a bin id stands on several rows of matching_bins the
\* capacity sum counts every row, each placed unit is taken from all of
\* them, and the pass ends with units left over after rows were emitted.)
C11_PartialCommitAtomic ==
    [][(InLoop /\ partial_moves /\ CurBin \notin used_source_bins)
       => \/ /\ CurBin \in used_source_bins'
             /\ {NewAssignments[k].Unit : k \in DOMAIN NewAssignments}
                   = UnitsOfBin(FilterSelected(endcaps_in), CurBin)
          \/ /\ CurBin \notin used_source_bins'
             /\ assignments' = assignments
             /\ available_bins' = available_bins]_vars

\* The candidate pool (matching_bins) of the source bin about to be processed.
CurPool ==
    IF partial_moves
    THEN PartialMatching(available_bins, CurGroup, CurBin, used_source_bins)
    ELSE FullMatching(available_bins, CurGroup, CurBin, CurTotal, used_source_bins)

\* C12: in both modes, whenever a source bin is committed, every row of the
\* bin has a known batch date, and that date is at most 364 days from the
\* batch date of the target row its units are assigned to (every row of the
\* candidate pool that carries the bin id named in the assignment row).
C12_CommittedUnitsWithinWindow ==
    [][(InLoop /\ used_source_bins' # used_source_bins)
       => \A k \in DOMAIN NewAssignments :
             /\ \E j \in DOMAIN CurPool : CurPool[j].Bin = NewAssignments[k].TargetBin
             /\ \A i \in DOMAIN CurGroup :
                   /\ CurGroup[i].Date.known
                   /\ \A j \in DOMAIN CurPool :
                         CurPool[j].Bin = NewAssignments[k].TargetBin
                            => /\ CurPool[j].Date.known
                               /\ ~TooFar(CurPool[j].Date, CurGroup[i].Date)]_vars

\* A committed unit exactly 364 days from the oldest batch of its target.
C12_Witness ==
    \E i \in DOMAIN assignments :
        /\ assignments[i].SourceBin \in used_source_bins
        /\ Abs(parse_batch(assignments[i].Batch).date.ord
                 - parse_batch(assignments[i].OldestTarget).date.ord) = DateWindow

\* Summary entries and target bins of a committed source bin.
SummaryOf(bin) == {i \in DOMAIN summary_data : summary_data[i].SourceBin = bin}

TargetsOf(bin) == {assignments[i].TargetBin : i \in RowsOfSource(bin)}

\* Target bins named by the last n assignment rows of the bin.
LastTargetsOf(bin, n) ==
    LET R == RowsOfSource(bin)
        last == CHOOSE i \in R : \A j \in R : j <= i
    IN {assignments[i].TargetBin : i \in {j \in R : j > last - n}}

\* C13 as stated: in both modes the summary has exactly one entry per
\* committed (source bin, target bin) pairing: a source bin placed into k
\* distinct target bins has k entries, each naming its own target bin.
C13_EntryPerPairing_AsStated ==
    \A bin \in used_source_bins :
        /\ {summary_data[i].TargetBin : i \in SummaryOf(bin)} = TargetsOf(bin)
        /\ Cardinality(SummaryOf(bin)) = Cardinality(TargetsOf(bin))

\* C13: every committed source bin has exactly one summary entry.  In
\* full-move mode the entry names the one target bin of the bin's assignment
\* rows; in partial-move mode it names "Multiple" when the last
\* total_su_in_bin assignment rows name more than one bin, and the bin of the
\* last assignment row otherwise.
C13_EntryPerCommittedBin ==
    \A bin \in used_source_bins :
        /\ Cardinality(SummaryOf(bin)) = 1
        /\ \A e \in SummaryOf(bin) :
              IF partial_moves
              THEN LET W == LastTargetsOf(bin, summary_data[e].Moved)
                   IN summary_data[e].TargetBin =
                         IF Cardinality(W) > 1 THEN "Multiple"
                         ELSE CHOOSE t \in W : TRUE
              ELSE TargetsOf(bin) = {summary_data[e].TargetBin}

\* A partial move that split a source bin over two target bins.
C13_Witness ==
    /\ partial_moves
    /\ \E bin \in used_source_bins :
          /\ Cardinality(TargetsOf(bin)) = 2
          /\ \E e \in SummaryOf(bin) : summary_data[e].TargetBin = "Multiple"

\* Assignment rows of a source bin that carry one unit id.
RowsOfUnit(bin, unit) == {i \in RowsOfSource(bin) : assignments[i].Unit = unit}

\* C14 as stated: in both modes the number of assignment rows of a committed
\* source bin equals its count of distinct unit ids, each row with quantity
\* 1, also when a unit id stands on several source rows.
C14_RowPerUnit_AsStated ==
    \A bin \in used_source_bins :
        /\ Cardinality(RowsOfSource(bin))
              = su_count_per_bin(FilterSelected(endcaps_in), bin)
        /\ \A i \in RowsOfSource(bin) : assignments[i].Qty = 1

\* C14: in both modes a committed source bin has one assignment row, of
\* quantity 1, per source row of the bin: every unit has as many rows as it
\* has source rows (batches), and the units named are the bin's units.
C14_RowPerUnitBatch ==
    \A bin \in used_source_bins :
        LET rows == FilterSelected(endcaps_in)
        IN /\ Cardinality(RowsOfSource(bin)) = Len(BinGroup(rows, bin))
           /\ \A i \in RowsOfSource(bin) : assignments[i].Qty = 1
           /\ {assignments[i].Unit : i \in RowsOfSource(bin)} = UnitsOfBin(rows, bin)
           /\ \A u \in UnitsOfBin(rows, bin) :
                 Cardinality(RowsOfUnit(bin, u)) = Len(BatchesOf(rows, bin, u))

\* A committed bin with a unit that stands on two source rows.
C14_Witness ==
    \E bin \in used_source_bins :
        \E u \in UnitsOfBin(FilterSelected(endcaps_in), bin) :
            Cardinality(RowsOfUnit(bin, u)) = 2

\* C15: in both modes, the remaining-capacity value of every assignment row
\* of a commit equals the available capacity that the named target bin has
\* in the working table (on some row of that bin) once the step has moved
\* the source bin's units.  (Fails in partial-move mode: every unit placed
\* into a target records current_avail - 1, read before the first unit.)
C15_RemainingIsLedgerValue ==
    [][(InLoop /\ used_source_bins' # used_source_bins)
       => \A k \in DOMAIN NewAssignments :
             \E i \in DOMAIN available_bins' :
                /\ available_bins'[i].Bin = NewAssignments[k].TargetBin
                /\ available_bins'[i].Avail = NewAssignments[k].Remaining]_vars

\* Target bins named by some assignment row of the run.
ReceivingBins == {assignments[i].TargetBin : i \in DOMAIN assignments}

\* C16: in the updated target-capacity table every row whose bin received
\* no units has the available capacity, unit count and utilization
\* percentage of the input row; only rows of receiving bins are changed.
\* (Fails: the write-back loop rewrites the three columns of every row
\* whose bin id is in available_bins, from the last such row.)
C16_UntouchedRowsUnchanged ==
    pc = "done"
       => \A i \in DOMAIN updated_open_space_df :
             updated_open_space_df[i].Bin \notin ReceivingBins
                => /\ updated_open_space_df[i].Avail = open_space_in[i].Avail
                   /\ updated_open_space_df[i].Count = open_space_in[i].Count
                   /\ updated_open_space_df[i].Util.num
                         = open_space_in[i].Util * updated_open_space_df[i].Util.den

\* C17: in both modes, every assignment row of a commit names a target bin
\* other than the source bin, the target's batch label has the batch prefix
\* of the source bin's first row, and the labelled target row has the
\* material of the source bin's first row.
C17_TargetMatchesSource ==
    [][(InLoop /\ used_source_bins' # used_source_bins)
       => \A k \in DOMAIN NewAssignments :
             LET a == NewAssignments[k]
             IN /\ a.TargetBin # CurBin
                /\ a.SourceBin = CurBin
                /\ a.Material = CurGroup[1].Material
                /\ PrefixEq(parse_batch(a.OldestTarget).prefix, CurGroup[1].Prefix)
                /\ \E j \in DOMAIN available_bins :
                      /\ available_bins[j].Bin = a.TargetBin
                      /\ available_bins[j].Batch = a.OldestTarget
                      /\ available_bins[j].Material = CurGroup[1].Material
                      /\ PrefixEq(available_bins[j].Prefix, CurGroup[1].Prefix)]_vars

\* A committed source bin whose rows carry two materials: the first row's
\* material decided the match.
C17_Witness ==
    \E i \in DOMAIN assignments :
        /\ assignments[i].SourceBin \in used_source_bins
        /\ \E j \in DOMAIN endcaps_df :
              /\ endcaps_df[j].Bin = assignments[i].SourceBin
              /\ endcaps_df[j].Material # assignments[i].Material

\* C18: when a source bin is about to be processed, in either mode, every
\* row of its candidate pool has available capacity > 0 in the working
\* table: a target emptied by earlier commits is in no later pool.  (Fails
\* in partial-move mode: the pool filter has no capacity condition.)
C18_PoolHasCapacity ==
    (InLoop /\ CurBin \notin used_source_bins)
        => \A j \in DOMAIN CurPool : CurPool[j].Avail > 0

\* Candidate t passes the date gate when judged on its own date.
PassesAlone(t, bin_group) ==
    \A i \in DOMAIN bin_group :
        bin_group[i].Date.known /\ ~TooFar(t.Date, bin_group[i].Date)

\* C19: in full-move mode a source bin is committed to the first candidate
\* of its pool, in descending order of available capacity, that passes the
\* date gate; failing candidates are skipped, and the bin stays uncommitted
\* only if no candidate passes.  (Fails: the gate reads the dates of the
\* whole pool, so one failing candidate rejects every candidate.)
C19_FirstPassingCandidate ==
    [][(InLoop /\ ~partial_moves /\ CurBin \notin used_source_bins)
       => LET ok == {j \in DOMAIN CurPool : PassesAlone(CurPool[j], CurGroup)}
          IN IF ok = {}
             THEN CurBin \notin used_source_bins' /\ assignments' = assignments
             ELSE /\ CurBin \in used_source_bins'
                  /\ \E j \in ok :
                        /\ \A k \in ok : CurPool[k].Avail <= CurPool[j].Avail
                        /\ summary_data'[Len(summary_data')].TargetBin = CurPool[j].Bin
                        /\ summary_data'[Len(summary_data')].AvailBefore
                              = CurPool[j].Avail]_vars

----------------------------------------------------------------------------
\* sorted_endcap_bins lists every source bin once, by non-decreasing count.
VisitOrder ==
    /\ Len(sorted_endcap_bins) = Cardinality(SourceBins)
    /\ {sorted_endcap_bins[i] : i \in DOMAIN sorted_endcap_bins} = SourceBins
    /\ \A i, j \in DOMAIN sorted_endcap_bins :
          i < j => su_count_per_bin(FilterSelected(endcaps_in), sorted_endcap_bins[i])
                      <= su_count_per_bin(FilterSelected(endcaps_in), sorted_endcap_bins[j])

\* Steps the run can still take: one for the set-up, one per source bin not
\* yet passed, one for the write-back.
StepsLeft ==
    IF pc = "upload" THEN Cardinality(SourceBins) + 2
    ELSE IF pc = "loop" THEN Len(sorted_endcap_bins) + 2 - pos
    ELSE 0

\* The enabling condition of Next written out: the set-up has an outcome for
\* each of its sorts, a pass of the loop has a bin to read and an order of
\* its pool, and the write-back follows the last pass.
CanStep ==
    \/ /\ pc = "upload"
       /\ RowOrders(EnrichSource(FilterSelected(endcaps_in))) # {}
       /\ SortedBinOrders(FilterSelected(endcaps_in)) # {}
       /\ ByCountDesc(EnrichTarget(FilterVIR(open_space_in))) # {}
    \/ /\ InLoop
       /\ CurGroup # <<>>
       /\ CurBin \in used_source_bins \/ ByAvailDesc(CurPool) # {}
    \/ pc = "loop" /\ pos > Len(sorted_endcap_bins)

\* C20: in both modes the engine terminates: before the end a step is
\* always possible and every step lowers StepsLeft, which is never negative.
\* The loop passes over every source bin exactly once, in non-decreasing
\* order of unique-unit count, one bin per step and never backwards, and at
\* the end every source bin is either in used_source_bins or was left
\* unmatched.
C20_TerminatesVisitingOnce ==
    /\ [](StepsLeft >= 0 /\ (pc # "done" => CanStep))
    /\ [](pc = "done" => /\ pos = Len(sorted_endcap_bins) + 1
                         /\ VisitOrder
                         /\ used_source_bins \subseteq SourceBins)
    /\ [][/\ StepsLeft' < StepsLeft
          /\ pos' # pos => (InLoop /\ pos' = pos + 1)
          /\ used_source_bins' # used_source_bins
                => (InLoop /\ used_source_bins' = used_source_bins \cup {CurBin})
          /\ pc = "loop" => sorted_endcap_bins' = sorted_endcap_bins]_vars

\* A finished run over two source bins of different size, one committed and
\* one left unmatched.
C20_Witness ==
    /\ pc = "done"
    /\ Len(sorted_endcap_bins) = 2
    /\ su_count_per_bin(FilterSelected(endcaps_in), sorted_endcap_bins[1])
          < su_count_per_bin(FilterSelected(endcaps_in), sorted_endcap_bins[2])
    /\ Cardinality(used_source_bins) = 1

\* C21: in both modes, a bin that received units as the target of a commit
\* is never committed as a source afterwards: no committed source bin is the
\* target bin of an earlier committed assignment row.  (Fails: the loop
\* guard reads used_source_bins only; excluded_target_bins stays empty.)
C21_TargetNeverLaterSource ==
    \A i, j \in DOMAIN assignments :
        (/\ i < j
         /\ assignments[i].SourceBin \in used_source_bins
         /\ assignments[j].SourceBin \in used_source_bins)
            => assignments[j].SourceBin # assignments[i].TargetBin

\* Units that the step assigns to target bin t.
NewUnitsInto(t) ==
    {NewAssignments[k].Unit :
        k \in {n \in DOMAIN NewAssignments : NewAssignments[n].TargetBin = t}}

\* C22: in partial-move mode, every distinct unit of a committed source bin
\* is assigned to exactly one target bin, and the number of distinct units
\* a target bin receives in the commit is at most the available capacity it
\* had in the candidate pool immediately before the commit.
C22_UnitsOnceWithinCapacity ==
    [][(InLoop /\ partial_moves /\ used_source_bins' # used_source_bins)
       => LET into == {NewAssignments[k].TargetBin : k \in DOMAIN NewAssignments}
          IN /\ \A u \in UnitsOfBin(FilterSelected(endcaps_in), CurBin) :
                   Cardinality({t \in into : u \in NewUnitsInto(t)}) = 1
             /\ \A t \in into :
                   \E j \in DOMAIN CurPool :
                      /\ CurPool[j].Bin = t
                      /\ Cardinality(NewUnitsInto(t)) <= CurPool[j].Avail]_vars

\* A committed partial move of three units over two target bins, one of
\* them filled to its capacity.
C22_Witness ==
    /\ partial_moves
    /\ \E bin \in used_source_bins :
          /\ su_count_per_bin(FilterSelected(endcaps_in), bin) = 3
          /\ Cardinality(TargetsOf(bin)) = 2
          /\ \E i \in DOMAIN available_bins :
                /\ available_bins[i].Bin \in TargetsOf(bin)
                /\ available_bins[i].Avail = 0

============================================================================
